---- MODULE Spec2Model ----
(***************************************************************************)
(* satflow: the "Sensor Harmonization Workflow" of src/satflow/main.py and *)
(* the provider clients of src/satflow/api.py.                             *)
(*                                                                         *)
(* One flow run: two query tasks (Prefect @task(max_retries=3)), one per   *)
(* product type, and two download_all tasks, each fed by one query task.   *)
(* The remote services (sentinelsat, landsatxplore) are the environment:   *)
(* every remote call either returns or raises, a Copernicus answer is a    *)
(* list of at most MaxRecs records keyed by 'uuid' and an EarthExplorer    *)
(* answer one of records keyed by 'entity_id'.                             *)
(*                                                                         *)
(* Spec is the flow run.  SpecDownload is one call of download_all on an   *)
(* arbitrary list of records (any key set per record).                     *)
(***************************************************************************)
EXTENDS Integers, Sequences, FiniteSets, TLC

\* ------------------------------------------------------------------ bounds
\* longest result list a remote query returns
MaxRecs == 2
\* largest coordinate of a bounding box drawn for bbox_to_wkt
MaxCoord == 1

\* --------------------------------------------------------- program constants
S2MSI1C == "S2MSI1C"
landsat_8_c1 == "landsat_8_c1"
\* the product types the flow queries, in the order the flow declares them
ProductTypes == <<S2MSI1C, landsat_8_c1>>
Types == {ProductTypes[i] : i \in 1..Len(ProductTypes)}

Copernicus == "CopernicusApi"
EarthExplorer == "EarthExplorerApi"
Providers == {Copernicus, EarthExplorer}

sentinel_dir == "../satdata/sentinel"
landsat_dir == "../satdata/landsat"

\* @task(max_retries=3, ...) on query
max_retries == 3
\* LocalDaskExecutor(scheduler="threads", num_workers=8)
num_workers == 8

\* parameters of the flow (bbox in tenths of a degree)
parameters_bbox == <<235, 377, 240, 382>>

\* a product record is modelled by the set of discriminator keys it carries
Keys == {"uuid", "entity_id"}
Shapes == SUBSET Keys
RECURSIVE SeqsUpTo(_, _)
SeqsUpTo(S, n) ==
    IF n = 0 THEN {<<>>}
    ELSE LET shorter == SeqsUpTo(S, n - 1)
         IN  shorter \cup {Append(s, x) : s \in {q \in shorter : Len(q) = n - 1}, x \in S}
\* the lists of records download_all can be handed
ProductLists == SeqsUpTo(Shapes, MaxRecs)

\* the record a provider's query answers with: sentinelsat products carry
\* 'uuid', landsatxplore scenes carry 'entity_id'
ProviderRecord(p) == IF p = "CopernicusApi" THEN {"uuid"} ELSE {"entity_id"}
\* a remote answer of n records
RemoteAnswer(p, n) == [i \in 1..n |-> ProviderRecord(p)]

Coords == 0..MaxCoord
\* bbox = (minLon, minLat, maxLon, maxLat), min < max on both axes
BBoxes == {b \in Coords \X Coords \X Coords \X Coords : b[1] < b[3] /\ b[2] < b[4]}

NoCall == [provider |-> "none", dir |-> "none", session |-> FALSE,
           client |-> [type |-> "none", n |-> 0]]

VARIABLES
    bbox,          \* Parameter('bbox')
    creds,         \* provider -> both credential environment variables are set
    qstate,        \* product type -> Prefect state of its query task
    run_count,     \* product type -> Prefect task_run_count of its query task
    executions,    \* product type -> times the body of query has been entered
    failures,      \* product type -> attempts of query that raised
    nqueries,      \* product type -> remote queries issued to the provider
    geometry,      \* geometry of the last remote Copernicus query (the wkt)
    remote_result, \* product type -> records of the last remote answer
    result,        \* product type -> return value of the query task
    dstate,        \* product type -> Prefect state of its download_all task
    dstarts,       \* product type -> times download_all has been called
    products,      \* product type -> argument of download_all
    di,            \* product type -> position of the for loop of download_all
    dcall,         \* product type -> remote download in progress, or NoCall
    product_dirs,  \* product type -> the list download_all builds and returns
    dl_count,      \* product type -> record position -> remote downloads issued
    sessions,      \* open EarthExplorer sessions (logged in, not logged out)
    contacted      \* remote calls issued so far: [provider, call]

vars == <<bbox, creds, qstate, run_count, executions, failures, nqueries, geometry,
          remote_result, result, dstate, dstarts, products, di, dcall, product_dirs,
          dl_count, sessions, contacted>>

qvars == <<qstate, run_count, executions, failures, nqueries, geometry,
           remote_result, result>>
dvars == <<dstate, dstarts, products, di, dcall, product_dirs, dl_count>>

\* ------------------------------------------------------------ api.py helpers

\* CopernicusApi.bbox_to_wkt: MultiPoint([(bbox[0], bbox[2]), (bbox[1], bbox[3])]).wkt
\* (Python indexes from 0); the wkt text is modelled by its tag and point list.
bbox_to_wkt(b) == <<"MULTIPOINT", << <<b[1], b[3]>>, <<b[2], b[4]>> >> >>

\* the points of a MULTIPOINT geometry
PointsOf(wkt) == {wkt[2][i] : i \in 1..Len(wkt[2])}

\* the ordered dictionary sentinelsat answers with: uuid key -> product
OrderedDictOf(recs) == [i \in 1..Len(recs) |-> <<i, recs[i]>>]

\* CopernicusApi.ordered_dict_to_list: list(ordered_dict.values())
ordered_dict_to_list(od) == [i \in 1..Len(od) |-> od[i][2]]

\* EarthExplorerApi.__init__ / CopernicusApi.__init__: the assert on the
\* credential pair passes
ConstructorOk_unchecked(p) == TRUE
ConstructorOk(p) == creds[p]

\* ------------------------------------------------------------ main.py: query

\* query: the if / elif / else on product_type
QueryProvider(t) ==
    IF t = S2MSI1C THEN Copernicus
    ELSE IF t = landsat_8_c1 THEN EarthExplorer
    ELSE "ValueError"

\* Prefect TaskRunner.check_for_retry for a failed run: Retrying while
\* run_count <= max_retries, else Failed
check_for_retry_always(rc) == "Retrying"
check_for_retry_never(rc) == "Failed"
check_for_retry_off_by_one(rc) == IF rc <= max_retries + 1 THEN "Retrying" ELSE "Failed"
check_for_retry(rc) == IF rc <= max_retries THEN "Retrying" ELSE "Failed"

\* the session of the n-th remote query of a product type, and the session of
\* the download of the record at the loop position
QuerySession(t) == [kind |-> "query", type |-> t, n |-> nqueries[t]]
DownloadSession(t) == [kind |-> "download", type |-> t, n |-> di[t]]

\* a remote call of a provider's service
Remote(p, call) == [provider |-> p, call |-> call]

\* the client object an iteration of download_all constructs for itself:
\* api = CopernicusApi() / api = EarthExplorerApi() inside the loop
ClientOf_shared(t, i) == [type |-> "module", n |-> 0]
ClientOf(t, i) == [type |-> t, n |-> i]

\* an attempt of the query task raised
QueryAttemptFails_aborts_flow(t) ==
    /\ failures' = [failures EXCEPT ![t] = @ + 1]
    /\ qstate' = [u \in Types |->
                    IF u = t THEN check_for_retry(run_count[t])
                    ELSE IF check_for_retry(run_count[t]) = "Failed" THEN "Failed"
                    ELSE qstate[u]]
    /\ run_count' = [run_count EXCEPT
                       ![t] = IF check_for_retry(run_count[t]) = "Retrying"
                              THEN @ + 1 ELSE @]
QueryAttemptFails(t) ==
    /\ failures' = [failures EXCEPT ![t] = @ + 1]
    /\ qstate' = [qstate EXCEPT ![t] = check_for_retry(run_count[t])]
    /\ run_count' = [run_count EXCEPT
                       ![t] = IF check_for_retry(run_count[t]) = "Retrying"
                              THEN @ + 1 ELSE @]

\* the tasks a worker thread of the executor is running, and the executor
\* (num_workers threads) having a thread left for one more
RunningTasks ==
    {<<"query", t>> : t \in {u \in Types : qstate[u] = "Running"}}
        \cup {<<"download_all", t>> : t \in {u \in Types : dstate[u] = "Running"}}
WorkerFree == Cardinality(RunningTasks) < num_workers

Init ==
    /\ bbox \in BBoxes \cup {parameters_bbox}
    /\ creds \in [Providers -> BOOLEAN]
    /\ qstate = [t \in Types |-> "Pending"]
    /\ run_count = [t \in Types |-> 1]
    /\ executions = [t \in Types |-> 0]
    /\ failures = [t \in Types |-> 0]
    /\ nqueries = [t \in Types |-> 0]
    /\ geometry = <<>>
    /\ remote_result = [t \in Types |-> <<>>]
    /\ result = [t \in Types |-> <<>>]
    /\ dstate = [t \in Types |-> "Pending"]
    /\ dstarts = [t \in Types |-> 0]
    /\ products = [t \in Types |-> <<>>]
    /\ di = [t \in Types |-> 0]
    /\ dcall = [t \in Types |-> NoCall]
    /\ product_dirs = [t \in Types |-> <<>>]
    /\ dl_count = [t \in Types |-> [i \in 1..MaxRecs |-> 0]]
    /\ sessions = {}
    /\ contacted = {}

\* The query task starts (first run or retry) and runs up to its remote call:
\* provider choice, constructor, and for EarthExplorer the login of
\* API(username, password); for Copernicus the bbox conversion.
QueryStart(t, login_ok) ==
    /\ qstate[t] \in {"Pending", "Retrying"}
    /\ WorkerFree
    /\ executions' = [executions EXCEPT ![t] = @ + 1]
    /\ IF QueryProvider(t) = "ValueError" \/ ~ConstructorOk(QueryProvider(t))
       THEN \* ValueError / AssertionError before any remote call
            /\ QueryAttemptFails(t)
            /\ UNCHANGED <<nqueries, geometry, sessions, contacted>>
       ELSE IF QueryProvider(t) = Copernicus
       THEN /\ geometry' = bbox_to_wkt(bbox)
            /\ nqueries' = [nqueries EXCEPT ![t] = @ + 1]
            /\ contacted' = contacted \cup {Remote(Copernicus, "query")}
            /\ qstate' = [qstate EXCEPT ![t] = "Running"]
            /\ UNCHANGED <<failures, run_count, sessions>>
       ELSE IF login_ok
       THEN /\ nqueries' = [nqueries EXCEPT ![t] = @ + 1]
            /\ sessions' = sessions \cup {QuerySession(t)'}
            /\ contacted' = contacted \cup {Remote(EarthExplorer, "login"),
                                            Remote(EarthExplorer, "query")}
            /\ qstate' = [qstate EXCEPT ![t] = "Running"]
            /\ UNCHANGED <<failures, run_count, geometry>>
       ELSE \* the login of API(...) raised: no session was opened
            /\ QueryAttemptFails(t)
            /\ contacted' = contacted \cup {Remote(EarthExplorer, "login")}
            /\ UNCHANGED <<nqueries, geometry, sessions>>
    /\ UNCHANGED <<bbox, creds, remote_result, result, dvars>>

\* The remote query returns n records: logout (EarthExplorer) or
\* ordered_dict_to_list (Copernicus), then the task returns the records.
QueryReturn(t, n) ==
    /\ qstate[t] = "Running"
    /\ remote_result' = [remote_result EXCEPT
                           ![t] = RemoteAnswer(QueryProvider(t), n)]
    /\ result' = [result EXCEPT
                    ![t] = IF QueryProvider(t) = Copernicus
                           THEN ordered_dict_to_list(OrderedDictOf(remote_result'[t]))
                           ELSE remote_result'[t]]
    /\ sessions' = IF QueryProvider(t) = EarthExplorer
                   THEN sessions \ {QuerySession(t)}
                   ELSE sessions
    /\ contacted' = IF QueryProvider(t) = EarthExplorer
                    THEN contacted \cup {Remote(EarthExplorer, "logout")}
                    ELSE contacted
    /\ qstate' = [qstate EXCEPT ![t] = "Success"]
    /\ UNCHANGED <<bbox, creds, run_count, executions, failures, nqueries,
                   geometry, dvars>>

\* The remote query raises: the exception leaves query at once (the logout of
\* EarthExplorerApi.query is not reached) and Prefect decides on a retry.
QueryRaise(t) ==
    /\ qstate[t] = "Running"
    /\ QueryAttemptFails(t)
    /\ UNCHANGED <<bbox, creds, executions, nqueries, geometry, remote_result,
                   result, sessions, contacted, dvars>>

\* ----------------------------------------------------- main.py: download_all

\* the flow's edge into download_all: download_all(products_msi) takes the
\* result of the S2MSI1C query, download_all(products_oli) that of landsat_8_c1
Upstream_concatenated(t) == result[S2MSI1C] \o result[landsat_8_c1]
Upstream(t) == result[t]

\* Prefect's default trigger all_successful on the download_all task
UpstreamSuccessful_always_run(t) == TRUE
UpstreamSuccessful(t) == qstate[t] = "Success"
UpstreamFinished(t) == qstate[t] \in {"Success", "Failed"}

\* download_all: the if / elif / else on the keys of the product
RouteForDownload_one_dir(product) ==
    IF "uuid" \in product THEN <<Copernicus, sentinel_dir>>
    ELSE IF "entity_id" \in product THEN <<EarthExplorer, sentinel_dir>>
    ELSE <<"ValueError", "none">>
RouteForDownload(product) ==
    IF "uuid" \in product THEN <<Copernicus, sentinel_dir>>
    ELSE IF "entity_id" \in product THEN <<EarthExplorer, landsat_dir>>
    ELSE <<"ValueError", "none">>

\* the for loop of download_all moves to the next product
NextProduct_skip(i) == i + 2
NextProduct(i) == i + 1

\* product_dirs.append(path)
append_front(list, path) == <<path>> \o list
append(list, path) == Append(list, path)

\* the path a remote download of the record at position i returns
PathOf(t, i, dir) == [dir |-> dir, type |-> t, rec |-> i]

\* download_all raised: the task is Failed (no retries) and returns nothing
DownloadFails_retrying(t) ==
    /\ dstate' = [dstate EXCEPT ![t] = "Pending"]
    /\ dcall' = [dcall EXCEPT ![t] = NoCall]
    /\ product_dirs' = [product_dirs EXCEPT ![t] = <<>>]
DownloadFails_aborts_flow(t) ==
    /\ dstate' = [u \in Types |-> "Failed"]
    /\ dcall' = [u \in Types |-> NoCall]
    /\ product_dirs' = [u \in Types |-> <<>>]
DownloadFails(t) ==
    /\ dstate' = [dstate EXCEPT ![t] = "Failed"]
    /\ dcall' = [dcall EXCEPT ![t] = NoCall]
    /\ product_dirs' = [product_dirs EXCEPT ![t] = <<>>]

\* The upstream query task ended Failed: Prefect never runs download_all.
DownloadTriggerFailed(t) ==
    /\ dstate[t] = "Pending"
    /\ UpstreamFinished(t) /\ ~UpstreamSuccessful(t)
    /\ dstate' = [dstate EXCEPT ![t] = "TriggerFailed"]
    /\ UNCHANGED <<bbox, creds, qvars, dstarts, products, di, dcall, product_dirs,
                   dl_count, sessions, contacted>>

\* download_all is called with the records of its upstream query task.
DownloadStart(t) ==
    /\ dstate[t] = "Pending"
    /\ UpstreamSuccessful(t)
    /\ WorkerFree
    /\ dstate' = [dstate EXCEPT ![t] = "Running"]
    /\ dstarts' = [dstarts EXCEPT ![t] = @ + 1]
    /\ products' = [products EXCEPT ![t] = Upstream(t)]
    /\ di' = [di EXCEPT ![t] = 1]
    /\ product_dirs' = [product_dirs EXCEPT ![t] = <<>>]
    /\ UNCHANGED <<bbox, creds, qvars, dcall, dl_count, sessions, contacted>>

\* The loop is over: download_all returns product_dirs.
DownloadDone(t) ==
    /\ dstate[t] = "Running" /\ dcall[t] = NoCall
    /\ di[t] > Len(products[t])
    /\ dstate' = [dstate EXCEPT ![t] = "Success"]
    /\ UNCHANGED <<bbox, creds, qvars, dstarts, products, di, dcall, product_dirs,
                   dl_count, sessions, contacted>>

\* One iteration up to its remote call: routing, constructor, and for
\* EarthExplorer the login of EarthExplorer(username, password).
DownloadBegin(t, login_ok) ==
    /\ dstate[t] = "Running" /\ dcall[t] = NoCall
    /\ di[t] <= Len(products[t])
    /\ LET route == RouteForDownload(products[t][di[t]])
           api == route[1]
           output_dir == route[2]
       IN  IF api = "ValueError" \/ ~ConstructorOk(api)
           THEN /\ DownloadFails(t)
                /\ UNCHANGED <<dl_count, sessions, contacted>>
           ELSE IF api = EarthExplorer /\ ~login_ok
           THEN /\ DownloadFails(t)
                /\ contacted' = contacted \cup {Remote(EarthExplorer, "login")}
                /\ UNCHANGED <<dl_count, sessions>>
           ELSE /\ dcall' = [dcall EXCEPT
                               ![t] = [provider |-> api, dir |-> output_dir,
                                       session |-> api = EarthExplorer,
                                       client |-> ClientOf(t, di[t])]]
                /\ sessions' = IF api = EarthExplorer
                               THEN sessions \cup {DownloadSession(t)}
                               ELSE sessions
                /\ contacted' = contacted \cup
                                  (IF api = EarthExplorer
                                   THEN {Remote(api, "login"), Remote(api, "download")}
                                   ELSE {Remote(api, "download")})
                /\ dl_count' = [dl_count EXCEPT ![t][di[t]] = @ + 1]
                /\ UNCHANGED <<dstate, product_dirs>>
    /\ UNCHANGED <<bbox, creds, qvars, dstarts, products, di>>

\* The remote download returns its path: logout (EarthExplorer), append.
DownloadReturn(t) ==
    /\ dstate[t] = "Running" /\ dcall[t] # NoCall
    /\ sessions' = IF dcall[t].session
                   THEN sessions \ {DownloadSession(t)}
                   ELSE sessions
    /\ contacted' = IF dcall[t].session
                    THEN contacted \cup {Remote(dcall[t].provider, "logout")}
                    ELSE contacted
    /\ product_dirs' = [product_dirs EXCEPT
                          ![t] = append(@, PathOf(t, di[t], dcall[t].dir))]
    /\ di' = [di EXCEPT ![t] = NextProduct(@)]
    /\ dcall' = [dcall EXCEPT ![t] = NoCall]
    /\ UNCHANGED <<bbox, creds, qvars, dstate, dstarts, products, dl_count>>

\* The remote download raises: the exception leaves download_all at once (the
\* logout of EarthExplorerApi.download is not reached).
DownloadRaise(t) ==
    /\ dstate[t] = "Running" /\ dcall[t] # NoCall
    /\ DownloadFails(t)
    /\ UNCHANGED <<bbox, creds, qvars, dstarts, products, di, dl_count, sessions,
                   contacted>>

Next ==
    \/ \E t \in Types, ok \in BOOLEAN : QueryStart(t, ok)
    \/ \E t \in Types, n \in 0..MaxRecs : QueryReturn(t, n)
    \/ \E t \in Types : QueryRaise(t)
    \/ \E t \in Types : DownloadTriggerFailed(t)
    \/ \E t \in Types : DownloadStart(t)
    \/ \E t \in Types, ok \in BOOLEAN : DownloadBegin(t, ok)
    \/ \E t \in Types : DownloadReturn(t)
    \/ \E t \in Types : DownloadRaise(t)
    \/ \E t \in Types : DownloadDone(t)

Spec == Init /\ [][Next]_vars

\* The flow run in which a step that can be taken is eventually taken: the
\* executor runs the ready tasks and every remote call returns or raises.
SpecFair == Spec /\ WF_vars(Next)

\* ---------------------------------------------- download_all on any records

\* download_all is called once, as the task of product type t, with any list
\* of records as the value of its upstream task; nothing else runs.
InitDownload ==
    /\ bbox = parameters_bbox
    /\ creds \in [Providers -> BOOLEAN]
    /\ \E t \in Types, recs \in ProductLists :
          /\ qstate = [u \in Types |-> IF u = t THEN "Success" ELSE "Pending"]
          /\ result = [u \in Types |-> IF u = t THEN recs ELSE <<>>]
          /\ remote_result = result
    /\ run_count = [t \in Types |-> 1]
    /\ executions = [t \in Types |-> 0]
    /\ failures = [t \in Types |-> 0]
    /\ nqueries = [t \in Types |-> 0]
    /\ geometry = <<>>
    /\ dstate = [t \in Types |-> "Pending"]
    /\ dstarts = [t \in Types |-> 0]
    /\ products = [t \in Types |-> <<>>]
    /\ di = [t \in Types |-> 0]
    /\ dcall = [t \in Types |-> NoCall]
    /\ product_dirs = [t \in Types |-> <<>>]
    /\ dl_count = [t \in Types |-> [i \in 1..MaxRecs |-> 0]]
    /\ sessions = {}
    /\ contacted = {}

NextDownload ==
    \/ \E t \in Types : DownloadStart(t)
    \/ \E t \in Types, ok \in BOOLEAN : DownloadBegin(t, ok)
    \/ \E t \in Types : DownloadReturn(t)
    \/ \E t \in Types : DownloadRaise(t)
    \/ \E t \in Types : DownloadDone(t)

SpecDownload == InitDownload /\ [][NextDownload]_vars

\* Both download_all tasks of the flow are ready to run, each with any list
\* of records as the value of its upstream task.
InitDownloads ==
    /\ bbox = parameters_bbox
    /\ creds \in [Providers -> BOOLEAN]
    /\ qstate = [t \in Types |-> "Success"]
    /\ result \in [Types -> ProductLists]
    /\ remote_result = result
    /\ run_count = [t \in Types |-> 1]
    /\ executions = [t \in Types |-> 0]
    /\ failures = [t \in Types |-> 0]
    /\ nqueries = [t \in Types |-> 0]
    /\ geometry = <<>>
    /\ dstate = [t \in Types |-> "Pending"]
    /\ dstarts = [t \in Types |-> 0]
    /\ products = [t \in Types |-> <<>>]
    /\ di = [t \in Types |-> 0]
    /\ dcall = [t \in Types |-> NoCall]
    /\ product_dirs = [t \in Types |-> <<>>]
    /\ dl_count = [t \in Types |-> [i \in 1..MaxRecs |-> 0]]
    /\ sessions = {}
    /\ contacted = {}

SpecDownloads == InitDownloads /\ [][NextDownload]_vars

\* ------------------------------------------------------------------ claims

Ended(t) == dstate[t] \in {"Success", "Failed"}
Routable(product) == RouteForDownload(product)[1] # "ValueError"

AllCredentials == \A p \in Providers : creds[p]
AllRoutable(list) == \A i \in 1..Len(list) : Routable(list[i])

\* C1: whatever remote downloads fail, a call of download_all that has ended
\* has produced exactly one result per input record (stated for the calls
\* whose records are all routable and whose credentials are set, so that a
\* failed remote download or login is the only failure there is).
C1_OneResultPerRecord ==
    \A t \in Types :
        (Ended(t) /\ AllCredentials /\ AllRoutable(products[t]))
            => Len(product_dirs[t]) = Len(products[t])

\* C2: a remote download is only ever issued for a record with exactly one
\* discriminator key, and to the provider of that key; a record with no key
\* or with both keys is never routed to a provider.
C2_StrictRouting ==
    \A t \in Types :
        dcall[t] # NoCall =>
            LET product == products[t][di[t]]
            IN  /\ Cardinality(product) = 1
                /\ "uuid" \in product => dcall[t].provider = Copernicus
                /\ "entity_id" \in product => dcall[t].provider = EarthExplorer

\* C3 (as claimed): the provider query of a query task is issued at most 3
\* times in all.
C3_AtMostThreeQueries ==
    \A t \in Types : nqueries[t] <= 3

\* C3 (amended): the body of a query task is entered, and its provider query
\* issued, at most 4 times in all (the first run and 3 retries), and a task
\* that has ended in failure has been run exactly 4 times.
C3_AtMostFourQueries ==
    \A t \in Types :
        /\ nqueries[t] <= 4
        /\ executions[t] <= 4
        /\ qstate[t] = "Failed" => executions[t] = 4

C3_Witness ==
    \E t \in Types : qstate[t] = "Failed" /\ nqueries[t] = 4

\* C4: a query task whose provider's credentials are missing (or whose
\* product type is unsupported) is run exactly once and never retried.
C4_NoRetryWithoutCredentials ==
    \A t \in Types :
        (QueryProvider(t) = "ValueError" \/ ~ConstructorOk(QueryProvider(t)))
            => executions[t] <= 1 /\ qstate[t] # "Retrying"

\* the call that opened session s is still in progress
InProgress(s) ==
    \/ /\ s.kind = "query"
       /\ qstate[s.type] = "Running"
       /\ s.n = nqueries[s.type]
    \/ /\ s.kind = "download"
       /\ dcall[s.type] # NoCall
       /\ s.n = di[s.type]

\* C5: every open provider session belongs to a query or download call that
\* is still in progress: once a call has returned or raised, no session it
\* opened is left open.
C5_SessionsReleased ==
    \A s \in sessions : InProgress(s)

\* the failure of download_all, if any, was not the failure of the download
\* of a routable record
NoDownloadFailure(t) ==
    dstate[t] = "Failed" => ~Routable(products[t][di[t]])

\* C6: when a batch holds a record with no discriminator key, every other
\* record of the batch, the ones after it included, is still downloaded and
\* gets its own result (stated for the calls in which no remote download or
\* login fails and the credentials are set).
C6_UnroutableRecordIsContained ==
    \A t \in Types :
        (/\ Ended(t)
         /\ AllCredentials
         /\ NoDownloadFailure(t)
         /\ \E i \in 1..Len(products[t]) : products[t][i] = {})
            => /\ \A j \in 1..Len(products[t]) :
                    Routable(products[t][j]) => dl_count[t][j] = 1
               /\ Len(product_dirs[t]) =
                    Cardinality({j \in 1..Len(products[t]) : Routable(products[t][j])})

\* C7: a query task of which at most two runs have failed is not failed: it
\* is retried, and when its first two runs fail and its third run succeeds the task ends in success with the records
\* of that run's remote answer, its download task is not failed by the
\* trigger, and download_all is called with exactly those records.
C7_ThirdAttemptSucceeds ==
    \A t \in Types :
        /\ failures[t] <= 2 => qstate[t] # "Failed"
        /\ (failures[t] = 2 /\ qstate[t] = "Success")
              => /\ executions[t] = 3
                 /\ result[t] = remote_result[t]
                 /\ dstate[t] # "TriggerFailed"
                 /\ dstate[t] # "Pending" => products[t] = remote_result[t]

C7_Witness ==
    \E t \in Types :
        /\ failures[t] = 2 /\ qstate[t] = "Success" /\ executions[t] = 3
        /\ dstate[t] = "Success" /\ Len(products[t]) = MaxRecs
        /\ Len(product_dirs[t]) = MaxRecs

Called(t) == dstate[t] \notin {"Pending", "TriggerFailed"}

RECURSIVE SumTo(_, _)
SumTo(f, n) == IF n = 0 THEN 0 ELSE f[n] + SumTo(f, n - 1)

AllSucceeded ==
    \A t \in Types : failures[t] = 0 /\ qstate[t] = "Success" /\ dstate[t] = "Success"

\* C9: in a run in which every query and every download succeeded, with N1
\* and N2 records returned, 2 remote queries and N1+N2 remote downloads were
\* issued, every returned record was downloaded exactly once, and N1+N2
\* results were produced, the i-th result of a type being that of its i-th
\* record.
C9_AllSucceed ==
    AllSucceeded =>
        LET N1 == Len(result[S2MSI1C])
            N2 == Len(result[landsat_8_c1])
        IN  /\ nqueries[S2MSI1C] + nqueries[landsat_8_c1] = 2
            /\ SumTo(dl_count[S2MSI1C], MaxRecs) + SumTo(dl_count[landsat_8_c1], MaxRecs)
                 = N1 + N2
            /\ \A t \in Types : \A i \in 1..Len(result[t]) : dl_count[t][i] = 1
            /\ Len(product_dirs[S2MSI1C]) + Len(product_dirs[landsat_8_c1]) = N1 + N2
            /\ \A t \in Types : \A i \in 1..Len(product_dirs[t]) :
                  product_dirs[t][i].rec = i

C9_Witness ==
    /\ AllSucceeded
    /\ Len(result[S2MSI1C]) = MaxRecs
    /\ Len(result[landsat_8_c1]) = MaxRecs - 1

\* the four corners of a bbox (minLon, minLat, maxLon, maxLat)
Corners(b) == {<<b[1], b[2]>>, <<b[1], b[4]>>, <<b[3], b[2]>>, <<b[3], b[4]>>}

\* C10: the points of the geometry CopernicusApi.query builds from the bbox
\* with bbox_to_wkt are exactly the four corners of the box.
C10_WktIsTheFourCorners ==
    geometry # <<>> => PointsOf(geometry) = Corners(bbox)

\* the run is over: no task has a step left
RunOver == ~ENABLED Next

\* C11: the query tasks of the two product types do not depend on each other:
\* a run of one that fails, the last one included, leaves the other's task
\* as it is, a query task that is pending or waiting for its retry can always
\* start whatever the state of the other, and when the run is over both
\* queries have been executed.
C11_QueriesAreIndependent ==
    /\ [](\A u \in Types :
            qstate[u] \in {"Pending", "Retrying"} => ENABLED QueryStart(u, TRUE))
    /\ [](RunOver => \A t \in Types : executions[t] >= 1 /\ UpstreamFinished(t))
    /\ [][\A t, u \in Types :
            (t # u /\ failures'[t] > failures[t])
                => /\ qstate'[u] = qstate[u]
                   /\ run_count'[u] = run_count[u]
                   /\ result'[u] = result[u]]_vars

C11_Witness ==
    \E t, u \in Types :
        /\ qstate[t] = "Failed" /\ creds[QueryProvider(t)]
        /\ qstate[u] = "Success" /\ executions[u] = 1
        /\ dstate[u] = "Success" /\ Len(product_dirs[u]) = MaxRecs

\* C12: no remote call (login, query, download, logout) is ever issued to a
\* provider whose credential pair is missing: the constructor of its client
\* fails first.
C12_NoRemoteCallWithoutCredentials ==
    \A p \in Providers :
        ~creds[p] => \A c \in contacted : c.provider # p

C12_Witness ==
    \E t \in Types :
        /\ ~creds[QueryProvider(t)]
        /\ qstate[t] = "Failed" /\ executions[t] = max_retries + 1
        /\ \E c \in contacted : c.call = "download"

\* C13: download_all is run at most once per product type and the remote
\* download of a record is issued at most once, whether it returns or raises.
C13_DownloadsAreNotRetried ==
    \A t \in Types :
        /\ dstarts[t] <= 1
        /\ \A i \in 1..MaxRecs : dl_count[t][i] <= 1

C13_Witness ==
    \E t \in Types :
        /\ dstate[t] = "Failed" /\ dl_count[t][1] = 1
        /\ \A u \in Types : UpstreamFinished(u) /\ dstate[u] # "Pending" /\ dstate[u] # "Running"

\* C14: a remote download of Copernicus is only ever issued with
\* '../satdata/sentinel' and one of EarthExplorer only with
\* '../satdata/landsat', and so are the paths they return.
C14_ProviderOwnsItsDirectory ==
    \A t \in Types :
        /\ dcall[t] # NoCall =>
              /\ dcall[t].provider = Copernicus => dcall[t].dir = "../satdata/sentinel"
              /\ dcall[t].provider = EarthExplorer => dcall[t].dir = "../satdata/landsat"
        /\ \A i \in 1..Len(product_dirs[t]) :
              /\ "uuid" \in products[t][i] => product_dirs[t][i].dir = "../satdata/sentinel"
              /\ products[t][i] = {"entity_id"} => product_dirs[t][i].dir = "../satdata/landsat"

C14_Witness ==
    \E t \in Types :
        /\ dcall[t].provider = EarthExplorer /\ dcall[t].dir = "../satdata/landsat"
        /\ Len(product_dirs[t]) = 1 /\ product_dirs[t][1].dir = "../satdata/sentinel"

\* the download tasks with a remote download in progress
DownloadsInProgress == {t \in Types : dcall[t] # NoCall}

\* C15: at most 8 remote downloads are in progress at the same time, and no
\* two downloads in progress share a provider client or a session.
C15_BoundedIsolatedDownloads ==
    /\ Cardinality(DownloadsInProgress) <= 8
    /\ Cardinality(RunningTasks) <= 8
    /\ \A t, u \in DownloadsInProgress :
          t # u => /\ dcall[t].client # dcall[u].client
                   /\ (dcall[t].session /\ dcall[u].session)
                         => DownloadSession(t) # DownloadSession(u)
    /\ \A t \in DownloadsInProgress :
          dcall[t].session => DownloadSession(t) \in sessions

C15_Witness ==
    /\ Cardinality(DownloadsInProgress) = 2
    /\ \E t \in DownloadsInProgress : dcall[t].session

Downloaded(t) == \E i \in 1..MaxRecs : dl_count[t][i] > 0

\* C16: download_all of a product type is called, and a remote download for
\* it issued, only once that type's query task has ended in success; when the
\* query task has ended in failure no download for the type is ever issued.
C16_DownloadOnlyAfterQuerySuccess ==
    \A t \in Types :
        /\ (dstarts[t] > 0 \/ Downloaded(t) \/ dcall[t] # NoCall)
              => qstate[t] = "Success"
        /\ qstate[t] = "Failed"
              => /\ dstate[t] \in {"Pending", "TriggerFailed"}
                 /\ dstarts[t] = 0 /\ ~Downloaded(t)

C16_Witness ==
    \E t, u \in Types :
        /\ qstate[t] = "Failed" /\ nqueries[t] = max_retries + 1
        /\ dstate[t] = "TriggerFailed"
        /\ dstate[u] = "Success" /\ Downloaded(u)

\* C17: when download_all returns, its i-th path is the one of the download
\* of its i-th record, and the records are downloaded one after another in
\* input order: a record's download is issued only when the downloads of
\* all the records before it have returned.
C17_OutputInInputOrder ==
    \A t \in Types :
        /\ dstate[t] = "Success" =>
              /\ Len(product_dirs[t]) = Len(products[t])
              /\ \A i \in 1..Len(products[t]) :
                    product_dirs[t][i] =
                        [dir |-> IF "uuid" \in products[t][i]
                                 THEN "../satdata/sentinel" ELSE "../satdata/landsat",
                         type |-> t, rec |-> i]
        /\ dstate[t] \in {"Running", "Success"} =>
              \A i \in 1..Len(products[t]) :
                  /\ dl_count[t][i] > 0 => i <= Len(product_dirs[t]) + 1
                  /\ i <= Len(product_dirs[t]) => product_dirs[t][i].rec = i
        /\ \A i, j \in 1..MaxRecs :
              (j < i /\ dl_count[t][i] > 0) => dl_count[t][j] > 0

C17_Witness ==
    \E t \in Types :
        /\ dstate[t] = "Success" /\ Len(product_dirs[t]) = MaxRecs
        /\ product_dirs[t][1].dir # product_dirs[t][MaxRecs].dir

\* C18: the two download_all tasks are isolated from each other: a step in
\* which one of them fails (a failed download, an unroutable record) leaves
\* the other as it is, a running task always has a step of its own to take
\* whatever the state of the other, and a task whose own downloads all
\* succeed ends in success with all of its records downloaded.
C18_DownloadTasksAreIsolated ==
    /\ [][\A t, u \in Types :
            (t # u /\ dstate[t] # "Failed" /\ dstate'[t] = "Failed")
                => /\ dstate'[u] = dstate[u]
                   /\ dcall'[u] = dcall[u]
                   /\ di'[u] = di[u]
                   /\ product_dirs'[u] = product_dirs[u]]_vars
    /\ [](\A u \in Types :
            dstate[u] = "Running"
                => ENABLED (DownloadBegin(u, TRUE) \/ DownloadReturn(u) \/ DownloadDone(u)))
    /\ [](\A u \in Types :
            dstate[u] = "Success"
                => /\ Len(product_dirs[u]) = Len(products[u])
                   /\ \A i \in 1..Len(products[u]) : dl_count[u][i] = 1)
    /\ [](~ENABLED NextDownload => \A u \in Types : Ended(u))

C18_Witness ==
    \E t, u \in Types :
        /\ dstate[t] = "Failed" /\ products[t][di[t]] = {}
        /\ dstate[u] = "Success" /\ Len(product_dirs[u]) = MaxRecs

\* every task of the run is in a final state
AllFinal ==
    \A t \in Types :
        /\ qstate[t] \in {"Success", "Failed"}
        /\ dstate[t] \in {"Success", "Failed", "TriggerFailed"}

\* an upper bound of the steps a query task has left: two per run not yet
\* started, one for the remote call in progress
QuerySteps(t) ==
    IF qstate[t] \in {"Success", "Failed"} THEN 0
    ELSE IF qstate[t] = "Running" THEN 2 * (max_retries + 1 - executions[t]) + 1
    ELSE 2 * (max_retries + 1 - executions[t])

\* an upper bound of the steps a download_all task has left: two per record
\* not yet downloaded, one for the call, one for the return
DownloadSteps(t) ==
    IF dstate[t] \in {"Success", "Failed", "TriggerFailed"} THEN 0
    ELSE IF dstate[t] = "Pending" THEN 2 * MaxRecs + 3
    ELSE IF dcall[t] = NoCall THEN 2 * (Len(products[t]) + 1 - di[t]) + 1
    ELSE 2 * (Len(products[t]) + 1 - di[t])

StepsLeft ==
    QuerySteps(S2MSI1C) + QuerySteps(landsat_8_c1)
        + DownloadSteps(S2MSI1C) + DownloadSteps(landsat_8_c1)

\* C19: every run terminates: whatever fails, both query tasks and both
\* download_all tasks eventually are in a final state (success, failure, or
\* failed by the trigger), because every step uses up one of a bounded number
\* of steps left (at most max_retries + 1 runs of a query, one pass over the
\* records of a download_all) and a run that is not over always has a step
\* to take.
C19_RunTerminates ==
    /\ <>[]AllFinal
    /\ [](AllFinal \/ ENABLED Next)
    /\ [](StepsLeft >= 0 /\ \A t \in Types : QuerySteps(t) >= 0 /\ DownloadSteps(t) >= 0)
    /\ [][StepsLeft' < StepsLeft]_vars

C19_Witness ==
    /\ AllFinal
    /\ \E t \in Types : qstate[t] = "Failed" /\ dstate[t] = "TriggerFailed"
    /\ \E t \in Types : dstate[t] = "Failed" /\ Len(products[t]) = MaxRecs /\ di[t] = MaxRecs
====
